---- MODULE Spec2Model ----
(***************************************************************************)
(* Model of the procedural 3D property-model pipeline of                   *)
(* backend/services/modeling_3d.py: TerrainModel, BuildingModel,           *)
(* PropertyModel, generate_property_model and                              *)
(* generate_model_with_ai_analysis.                                        *)
(*                                                                         *)
(* A mesh is a record [some, nv, faces]: nv vertices, faces a sequence of  *)
(* index triples (0-based, as in the code); some = FALSE is Python's None. *)
(* The pipeline's meshes carry no coordinates; the geometry of a single    *)
(* terrain or building mesh is modelled by the operators of the section    *)
(* "Geometry" and exercised call by call under GeometrySpec.               *)
(***************************************************************************)
EXTENDS Integers, Sequences, FiniteSets, TLC

VARIABLES
    pc,              \* position of the run inside generate_property_model
    property,        \* PropertyModel.property (property_id, buildings)
    options,         \* PropertyModel.options (ModelingOptions)
    model_id,        \* PropertyModel.model_id
    terrain_model,   \* PropertyModel.terrain_model
    building_models, \* PropertyModel.building_models
    combined_mesh,   \* PropertyModel.combined_mesh
    success,         \* local `success` of generate_model
    meshes,          \* local `meshes` of _combine_models, each with its origin
    files,           \* result["files"] while export_model runs
    idx,             \* loop index of the building export loop
    disk,            \* paths of the files written so far
    result,          \* the dictionary returned to the caller
    nextUuid,        \* source of uuid.uuid4() values
    events,          \* history: what the run did and which I/O failed
    aiPc,            \* position inside generate_model_with_ai_analysis
    aiIn,            \* inputs of generate_model_with_ai_analysis
    aiOutcome,       \* how generate_model_with_ai_analysis ended
    callPc,          \* position of a single call on a TerrainModel or BuildingModel
    callIn,          \* the object the call is made on and its arguments
    callOut,         \* what the call returned and left in the object
    clock,           \* time.time(), in whole seconds
    cache,           \* kartverket_api.cache
    last_request_time, \* kartverket_api.last_request_time: written or not, and by whom
    config,          \* kartverket_api.config (max_retries, cache_timeout)
    req              \* per run: the locals of its call of _make_request

vars == <<pc, property, options, model_id, terrain_model, building_models,
          combined_mesh, success, meshes, files, idx, disk, result, nextUuid,
          events, aiPc, aiIn, aiOutcome, callPc, callIn, callOut,
          clock, cache, last_request_time, config, req>>

pipelineVars == <<pc, property, options, model_id, terrain_model,
                  building_models, combined_mesh, success, meshes, files, idx,
                  disk, result, nextUuid, events>>

aiVars == <<aiPc, aiIn, aiOutcome>>

callVars == <<callPc, callIn, callOut>>

clientVars == <<clock, cache, last_request_time, config, req>>

----------------------------------------------------------------------------
(* Bounds of the model *)

MaxBuildings == 2
MaxPoints == 3
MaxRadiusH == 2
MaxResolutionH == 2
MaxSuggested == 2

----------------------------------------------------------------------------
(* Optional values: Python's None and `x or default` / `if x:` truthiness *)

None == [some |-> FALSE, v |-> 0]
Some(x) == [some |-> TRUE, v |-> x]
Truthy(x) == x.some /\ x.v # 0

NoMesh == [some |-> FALSE, nv |-> 0, faces |-> <<>>]
Mesh(n, fs) == [some |-> TRUE, nv |-> n, faces |-> fs]

----------------------------------------------------------------------------
(* Mesh concatenation, trimesh.util.concatenate as called by the code *)

FaceOffsetOffByOne(acc) == acc.nv + 1

\* the offset added to the face indices of the next mesh appended
FaceOffset(acc) == acc.nv

OffsetFace(f, off) == <<f[1] + off, f[2] + off, f[3] + off>>

AppendMeshWelded(acc, m) ==
    Mesh(IF acc.nv > m.nv THEN acc.nv ELSE m.nv,
         acc.faces \o [i \in 1..Len(m.faces) |-> OffsetFace(m.faces[i], 0)])

\* one step of the concatenation: the vertices and the faces of m are
\* stacked after those of acc
AppendMesh(acc, m) ==
    Mesh(acc.nv + m.nv,
         acc.faces \o [i \in 1..Len(m.faces) |-> OffsetFace(m.faces[i], FaceOffset(acc))])

RECURSIVE ConcatInto(_, _)
ConcatInto(acc, ms) ==
    IF ms = <<>> THEN acc ELSE ConcatInto(AppendMesh(acc, Head(ms)), Tail(ms))

Concatenate(ms) == ConcatInto(Mesh(0, <<>>), ms)

----------------------------------------------------------------------------
(* TerrainModel *)

\* The terrain provider's answers to get_terrain_model: a KartverketAPIError,
\* an empty dictionary, a dictionary without 'points', or n points (n >= 0).
ProviderResponses ==
    {[kind |-> k, n |-> 0] : k \in {"error", "empty_dict", "no_points_key"}}
        \cup {[kind |-> "points", n |-> n] : n \in 0..MaxPoints}

\* grid_size = int(radius * 2 * resolution); radius and resolution are given
\* in halves (radiusH = 2 * radius, resolutionH = 2 * resolution), so the
\* product is radiusH * resolutionH / 2 and int() truncates it.
GridSize(radiusH, resolutionH) == (radiusH * resolutionH) \div 2

ProcessTerrainDataNearest(n, radiusH, resolutionH) ==
    IF n < 1
    THEN [raised |-> TRUE, height_data |-> None]
    ELSE [raised |-> FALSE, height_data |-> Some(GridSize(radiusH, resolutionH))]

\* griddata(method='cubic') triangulates the samples and raises on fewer
\* than 3 of them; _process_terrain_data itself raises on none.
ProcessTerrainData(n, radiusH, resolutionH) ==
    IF n < 3
    THEN [raised |-> TRUE, height_data |-> None]
    ELSE [raised |-> FALSE, height_data |-> Some(GridSize(radiusH, resolutionH))]

\* fetch_terrain_data: the provider's answer resp, for a model of the given
\* radius and resolution. height_data is stored as the side of the grid.
FetchTerrainData(resp, radiusH, resolutionH) ==
    IF resp.kind = "error" THEN [ok |-> FALSE, height_data |-> None]
    ELSE IF resp.kind \in {"empty_dict", "no_points_key"} \/ resp.n = 0
    THEN [ok |-> FALSE, height_data |-> None]
    ELSE LET p == ProcessTerrainData(resp.n, radiusH, resolutionH)
         IN  IF p.raised THEN [ok |-> FALSE, height_data |-> None]
             ELSE [ok |-> TRUE, height_data |-> p.height_data]

TerrainFacesFlipped(N) ==
    IF N < 2 THEN <<>>
    ELSE [k \in 1..(2 * (N - 1) * (N - 1)) |->
            LET cell  == (k - 1) \div 2
                i     == cell \div (N - 1)
                j     == cell % (N - 1)
                idx00 == i * N + j
                idx01 == i * N + (j + 1)
                idx10 == (i + 1) * N + j
                idx11 == (i + 1) * N + (j + 1)
            IN  IF (k - 1) % 2 = 0 THEN <<idx00, idx10, idx11>>
                                   ELSE <<idx00, idx01, idx11>>]

TerrainFacesDegenerate(N) ==
    IF N < 2 THEN <<>>
    ELSE [k \in 1..(2 * (N - 1) * (N - 1)) |->
            LET cell  == (k - 1) \div 2
                i     == cell \div (N - 1)
                j     == cell % (N - 1)
                idx00 == i * N + j
                idx10 == (i + 1) * N + j
                idx11 == (i + 1) * N + (j + 1)
            IN  IF (k - 1) % 2 = 0 THEN <<idx00, idx10, idx11>>
                                   ELSE <<idx00, idx11, idx11>>]

\* The faces of generate_mesh for an N x N grid, in the order of its loops:
\* cell (i, j) gives [idx00, idx10, idx11] and then [idx00, idx11, idx01].
TerrainFaces(N) ==
    IF N < 2 THEN <<>>
    ELSE [k \in 1..(2 * (N - 1) * (N - 1)) |->
            LET cell  == (k - 1) \div 2
                i     == cell \div (N - 1)
                j     == cell % (N - 1)
                idx00 == i * N + j
                idx01 == i * N + (j + 1)
                idx10 == (i + 1) * N + j
                idx11 == (i + 1) * N + (j + 1)
            IN  IF (k - 1) % 2 = 0 THEN <<idx00, idx10, idx11>>
                                   ELSE <<idx00, idx11, idx01>>]

\* generate_mesh: no height data gives False; a grid of side 0 divides by
\* zero in scale_factor (caught, False); for a grid of side 1 the face array
\* is empty and whether trimesh.Trimesh accepts it is the library's choice
\* (libRaises); otherwise N*N vertices and the faces above.
TerrainGenerateMesh(height_data, libRaises) ==
    IF ~height_data.some THEN [ok |-> FALSE, mesh |-> NoMesh]
    ELSE IF height_data.v = 0 THEN [ok |-> FALSE, mesh |-> NoMesh]
    ELSE IF height_data.v = 1 /\ libRaises THEN [ok |-> FALSE, mesh |-> NoMesh]
    ELSE [ok |-> TRUE,
          mesh |-> Mesh(height_data.v * height_data.v, TerrainFaces(height_data.v))]

NoTerrainModel == [created |-> FALSE, height_data |-> None, mesh |-> NoMesh]

\* PropertyModel._generate_terrain
GenerateTerrain(resp, radiusH, resolutionH, libRaises) ==
    LET f == FetchTerrainData(resp, radiusH, resolutionH)
        g == TerrainGenerateMesh(f.height_data, libRaises)
    IN  IF ~f.ok
        THEN [ok |-> FALSE,
              terrain_model |-> [created |-> TRUE, height_data |-> None, mesh |-> NoMesh]]
        ELSE [ok |-> g.ok,
              terrain_model |-> [created |-> TRUE, height_data |-> f.height_data,
                                 mesh |-> g.mesh]]

----------------------------------------------------------------------------
(* BuildingModel *)

HouseTypes == {"enebolig", "tomannsbolig", "rekkehus", "hytte"}
CommercialTypes == {"naeringsbygg", "industribygg", "offentlig_bygg"}

\* The buildings the runs are made of: a house with area and floors, an
\* apartment block with neither, a commercial building with a negative area
\* and a building of another type with a negative floor count.
BuildingCatalogue ==
    { [id |-> 1, building_type |-> "enebolig", number_of_floors |-> Some(2),
       gross_area |-> Some(128)],
      [id |-> 2, building_type |-> "leilighetsbygg", number_of_floors |-> None,
       gross_area |-> None],
      [id |-> 2, building_type |-> "naeringsbygg", number_of_floors |-> Some(1),
       gross_area |-> Some(-50)],
      [id |-> 3, building_type |-> "annet", number_of_floors |-> Some(-1),
       gross_area |-> Some(50)] }

RECURSIVE SeqsUpTo(_, _)
SeqsUpTo(S, n) ==
    IF n = 0 THEN {<<>>}
    ELSE LET shorter == SeqsUpTo(S, n - 1)
         IN  shorter \cup {Append(s, x) : s \in shorter, x \in S}

BuildingLists == SeqsUpTo(BuildingCatalogue, MaxBuildings)

\* trimesh.creation.box: 8 vertices, 12 triangles
BoxFaces ==
    << <<1, 3, 0>>, <<4, 1, 0>>, <<0, 3, 2>>, <<2, 4, 0>>, <<1, 7, 3>>, <<5, 1, 4>>,
       <<5, 7, 1>>, <<3, 7, 2>>, <<6, 4, 2>>, <<2, 7, 6>>, <<6, 5, 4>>, <<7, 5, 6>> >>

BoxMesh == Mesh(8, BoxFaces)

\* roof_vertices (6 of them) and roof_faces of _create_house_mesh, as the
\* arrays are written (trimesh's merging of equal vertices is not modelled)
RoofFaces ==
    << <<0, 1, 2>>, <<0, 3, 1>>, <<0, 2, 4>>, <<0, 4, 3>>,
       <<5, 2, 1>>, <<5, 1, 3>>, <<5, 4, 2>>, <<5, 3, 4>> >>

RoofMesh == Mesh(6, RoofFaces)

\* _create_house_mesh: the box and the roof concatenated
HouseMesh == Concatenate(<<BoxMesh, RoofMesh>>)

Floors(b) == IF Truthy(b.number_of_floors) THEN b.number_of_floors.v ELSE 2

\* math.sqrt(area / floors) raises ValueError on a negative quotient
SqrtRaises(area, floors) ==
    (area < 0 /\ floors > 0) \/ (area > 0 /\ floors < 0)

\* BuildingModel.generate_mesh: False when the width cannot be computed,
\* otherwise the mesh of the building's type.
BuildingGenerateMesh(b) ==
    IF Truthy(b.gross_area) /\ SqrtRaises(b.gross_area.v, Floors(b))
    THEN [ok |-> FALSE, mesh |-> NoMesh]
    ELSE [ok |-> TRUE,
          mesh |-> IF b.building_type \in HouseTypes THEN HouseMesh ELSE BoxMesh]

----------------------------------------------------------------------------
(* PropertyModel: generation *)

RECURSIVE BuildLoopAbort(_, _)
BuildLoopAbort(bs, acc) ==
    IF bs = <<>> THEN [ok |-> TRUE, models |-> acc]
    ELSE LET g == BuildingGenerateMesh(Head(bs))
         IN  IF g.ok
             THEN BuildLoopAbort(Tail(bs),
                                 Append(acc, [building |-> Head(bs), mesh |-> g.mesh]))
             ELSE [ok |-> FALSE, models |-> acc]

GenerateBuildingsAbort(bs) == BuildLoopAbort(bs, <<>>)

RECURSIVE BuildLoop(_, _)
BuildLoop(bs, acc) ==
    IF bs = <<>> THEN acc
    ELSE LET g == BuildingGenerateMesh(Head(bs))
         IN  BuildLoop(Tail(bs),
                       IF g.ok THEN Append(acc, [building |-> Head(bs), mesh |-> g.mesh])
                               ELSE acc)

\* PropertyModel._generate_buildings: one BuildingModel per building whose
\* generate_mesh succeeds, in the order of the list; always True.
GenerateBuildings(bs) == [ok |-> TRUE, models |-> BuildLoop(bs, <<>>)]

CollectMeshesTerrainOnly(tm, bms) ==
    IF tm.created /\ tm.mesh.some THEN <<[origin |-> "terrain", mesh |-> tm.mesh]>>
    ELSE <<>>

\* the list `meshes` of _combine_models: the terrain mesh if there is one,
\* then the mesh of every building model
CollectMeshes(tm, bms) ==
    (IF tm.created /\ tm.mesh.some THEN <<[origin |-> "terrain", mesh |-> tm.mesh]>>
     ELSE <<>>)
    \o [i \in 1..Len(bms) |-> [origin |-> "building", mesh |-> bms[i].mesh]]

MeshesOf(ms) == [i \in 1..Len(ms) |-> ms[i].mesh]

\* PropertyModel._combine_models
CombineModels(tm, bms) ==
    LET ms == CollectMeshes(tm, bms)
    IN  IF ms = <<>>
        THEN [ok |-> FALSE, meshes |-> ms, combined_mesh |-> NoMesh]
        ELSE [ok |-> TRUE, meshes |-> ms, combined_mesh |-> Concatenate(MeshesOf(ms))]

TerrainRequestedAlways(opts) == TRUE

\* generate_model: `if self.options.include_terrain`
TerrainRequested(opts) == opts.include_terrain

----------------------------------------------------------------------------
(* Export *)

\* the formats the export_model methods write
SupportedFormats == {"glb", "obj", "stl"}

\* the formats mesh.export(file_type=...) of trimesh accepts, among those
\* the runs use; any other file_type makes it raise
LibraryFormats == SupportedFormats \cup {"ply"}

Formats == LibraryFormats \cup {"fbx"}

CombinedPath(mid, fmt) == [dir |-> mid, kind |-> "combined", key |-> 0, ext |-> fmt]
TerrainPath(mid, u, fmt) == [dir |-> mid, kind |-> "terrain", key |-> u, ext |-> fmt]
BuildingPath(mid, bid, fmt) == [dir |-> mid, kind |-> "building", key |-> bid, ext |-> fmt]
MetadataPath(mid) == [dir |-> mid, kind |-> "metadata", key |-> 0, ext |-> "json"]

NoPath == [some |-> FALSE, path |-> CombinedPath(0, "")]
ThePath(p) == [some |-> TRUE, path |-> p]

\* TerrainModel.export_model and BuildingModel.export_model: the path of the
\* file written, or "" (NoPath) for an unsupported format and for any
\* exception of the write (io = FALSE); the mesh is known to exist.
ExportModel(path, fmt, io) ==
    IF fmt \notin SupportedFormats THEN NoPath
    ELSE IF ~io THEN NoPath
    ELSE ThePath(path)

FileRecord(type, bid, fmt, path) ==
    [type |-> type, building_id |-> bid, format |-> fmt, path |-> path]

NoResult ==
    [returned |-> FALSE, model_id |-> 0, property_id |-> 0, error |-> FALSE,
     files |-> <<>>]

SuccessDescriptorReversed(mid, pid, fs) ==
    [returned |-> TRUE, model_id |-> mid, property_id |-> pid, error |-> FALSE,
     files |-> [i \in 1..Len(fs) |-> fs[Len(fs) + 1 - i]]]

\* the dictionary export_model returns after metadata.json was written
SuccessDescriptor(mid, pid, fs) ==
    [returned |-> TRUE, model_id |-> mid, property_id |-> pid, error |-> FALSE,
     files |-> fs]

ExportFailureDescriptorPartial(mid, pid, fs) ==
    [returned |-> TRUE, model_id |-> mid, property_id |-> pid, error |-> TRUE,
     files |-> fs]

\* the dictionary export_model returns from its except clause; fs is
\* result["files"] at the time of the exception
ExportFailureDescriptor(mid, pid, fs) ==
    [returned |-> TRUE, model_id |-> mid, property_id |-> pid, error |-> TRUE,
     files |-> <<>>]

\* the dictionary generate_property_model returns when generate_model fails
GenerateFailureDescriptor(mid, pid) ==
    [returned |-> TRUE, model_id |-> mid, property_id |-> pid, error |-> TRUE,
     files |-> <<>>]

\* how a call of generate_model_with_ai_analysis ends: not yet, with an
\* exception, or with a descriptor (its files and its ai_enhanced entry)
NoOutcome == [kind |-> "none", error |-> "", ai_enhanced |-> FALSE, files |-> <<>>]
Raised(e) == [kind |-> "raised", error |-> e, ai_enhanced |-> FALSE, files |-> <<>>]

----------------------------------------------------------------------------
(* KartverketAPI: the client object kartverket_api of the module, shared by *)
(* every run, and _make_request as the runs' terrain fetches call it       *)

MaxRetries == 2
MaxCacheTimeout == 2
MaxClock == 6

\* the concurrent runs, each making one request through the client
Runs == {1, 2}

\* get_terrain_model issues a GET and leaves use_cache at True
Methods == {"GET"}

\* cache_key: one per (endpoint, params), here the terrain endpoint with the
\* parameters of two places
Keys == {"terrain_a", "terrain_b"}

\* the JSON bodies the provider may answer with
Bodies == {1, 2}

\* what one attempt of session.request and the checks after it can give: a
\* JSON body d (data d), an empty body (data {} = 0), a body that is not
\* JSON, an HTTP error status and a transport error
Replies ==
    {[kind |-> "json", data |-> d] : d \in Bodies}
        \cup {[kind |-> k, data |-> 0] :
                 k \in {"empty_body", "non_json", "http_error", "transport_error"}}

NoEntry == [some |-> FALSE, data |-> 0, timestamp |-> 0, writer |-> 0]

NoRequest ==
    [pc |-> "idle", method |-> "GET", key |-> "terrain_a", current_time |-> 0,
     retries |-> 0, attempts |-> 0, waits |-> <<>>, wake |-> 0,
     only_transport |-> TRUE, from_cache |-> FALSE, data |-> 0, error |-> "",
     foreign |-> {}]

RECURSIVE Pow2(_)
Pow2(n) == IF n = 0 THEN 1 ELSE 2 * Pow2(n - 1)

BackoffConstant(retries) == 2

\* time.sleep(2 ** retries)
Backoff(retries) == Pow2(retries)

\* `use_cache and method.upper() == 'GET'`, use_cache being left at True
UsesCache(method) == method = "GET"

CacheHitNever(entry, current_time, cache_timeout) == FALSE

\* `cache_key in self.cache` and the entry is younger than cache_timeout
CacheHit(entry, current_time, cache_timeout) ==
    entry.some /\ current_time - entry.timestamp < cache_timeout

\* the names of the client's attributes among vs that run r finds last
\* written by another run
Foreign(r, writers) == {n \in DOMAIN writers : writers[n] \notin {0, r}}

\* the client as KartverketAPI.__init__ leaves it, with the configuration cfg
ClientConstructed(cfg) ==
    /\ clock = 0
    /\ cache = [k \in Keys |-> NoEntry]
    /\ last_request_time = [written |-> FALSE, writer |-> 0]
    /\ config = cfg
    /\ req = [r \in Runs |-> NoRequest]

\* DEFAULT_CONFIG: max_retries and cache_timeout
DefaultMaxRetries == 3
DefaultCacheTimeout == 3600

ClientDefault ==
    ClientConstructed([max_retries |-> DefaultMaxRetries,
                       cache_timeout |-> DefaultCacheTimeout])

----------------------------------------------------------------------------
(* State machine *)

PipelineInit ==
    /\ pc = "idle"
    /\ property = [property_id |-> 0, buildings |-> <<>>]
    /\ options = [include_terrain |-> TRUE, include_buildings |-> TRUE,
                  format |-> "glb", radiusH |-> 1, resolutionH |-> 1]
    /\ model_id = 0
    /\ terrain_model = NoTerrainModel
    /\ building_models = <<>>
    /\ combined_mesh = NoMesh
    /\ success = TRUE
    /\ meshes = <<>>
    /\ files = <<>>
    /\ idx = 1
    /\ disk = {}
    /\ result = NoResult
    /\ nextUuid = 1
    /\ events = {}
    /\ aiPc = "idle"
    /\ aiIn = [engine |-> FALSE, valid |-> FALSE, suggested |-> 0]
    /\ aiOutcome = NoOutcome

\* no single call is in progress while the pipeline runs, and the client
\* is the one the module constructs
Init ==
    /\ PipelineInit
    /\ callPc = "idle"
    /\ callIn = [kind |-> "none"]
    /\ callOut = [kind |-> "none"]
    /\ ClientDefault

\* generate_property_model up to the first statement of generate_model:
\* the PropertyModel is constructed for the property and the options
StartRun ==
    /\ pc = "idle" /\ aiPc = "idle"
    /\ \E it \in BOOLEAN, ib \in BOOLEAN, fmt \in Formats,
          rH \in 1..MaxRadiusH, qH \in 1..MaxResolutionH, bs \in BuildingLists :
          /\ property' = [property_id |-> 1, buildings |-> bs]
          /\ options' = [include_terrain |-> it, include_buildings |-> ib,
                         format |-> fmt, radiusH |-> rH, resolutionH |-> qH]
    /\ model_id' = nextUuid
    /\ nextUuid' = nextUuid + 1
    /\ terrain_model' = NoTerrainModel
    /\ building_models' = <<>>
    /\ combined_mesh' = NoMesh
    /\ success' = TRUE
    /\ pc' = "terrain"
    /\ UNCHANGED <<meshes, files, idx, disk, result, events, aiVars, callVars, clientVars>>

\* generate_model, the terrain stage
TerrainStage ==
    /\ pc = "terrain"
    /\ IF TerrainRequested(options)
       THEN \E resp \in ProviderResponses, libRaises \in BOOLEAN :
              LET g == GenerateTerrain(resp, options.radiusH, options.resolutionH,
                                       libRaises)
              IN  /\ terrain_model' = g.terrain_model
                  /\ success' = (success /\ g.ok)
                  /\ events' = events \cup {"provider_called"}
                                      \cup (IF resp.kind = "points" /\ resp.n = 0
                                            THEN {"zero_points"} ELSE {})
                                      \cup (IF g.ok THEN {} ELSE {"terrain_failed"})
       ELSE UNCHANGED <<terrain_model, success, events>>
    /\ pc' = "buildings"
    /\ UNCHANGED <<property, options, model_id, building_models, combined_mesh,
                   meshes, files, idx, disk, result, nextUuid, aiVars, callVars, clientVars>>

\* generate_model, the building stage: `success and self._generate_buildings()`
\* does not call _generate_buildings once success is False
BuildingStage ==
    /\ pc = "buildings"
    /\ IF options.include_buildings /\ success
       THEN LET g == GenerateBuildings(property.buildings)
            IN  /\ building_models' = g.models
                /\ success' = g.ok
                /\ events' = events \cup {"buildings_ran"}
       ELSE UNCHANGED <<building_models, success, events>>
    /\ pc' = "compose"
    /\ UNCHANGED <<property, options, model_id, terrain_model, combined_mesh,
                   meshes, files, idx, disk, result, nextUuid, aiVars, callVars, clientVars>>

\* generate_model, the composing stage and its return
ComposeStage ==
    /\ pc = "compose"
    /\ IF success
       THEN LET c == CombineModels(terrain_model, building_models)
            IN  /\ meshes' = c.meshes
                /\ combined_mesh' = c.combined_mesh
                /\ success' = c.ok
                /\ events' = events \cup {"compose_ran"}
                                    \cup (IF c.ok THEN {} ELSE {"compose_failed"})
       ELSE UNCHANGED <<meshes, combined_mesh, success, events>>
    /\ pc' = "generated"
    /\ UNCHANGED <<property, options, model_id, terrain_model, building_models,
                   files, idx, disk, result, nextUuid, aiVars, callVars, clientVars>>

\* generate_property_model: generate_model returned False
GenerateFailed ==
    /\ pc = "generated" /\ ~success
    /\ result' = GenerateFailureDescriptor(model_id, property.property_id)
    /\ pc' = "done"
    /\ UNCHANGED <<property, options, model_id, terrain_model, building_models,
                   combined_mesh, success, meshes, files, idx, disk, nextUuid,
                   events, aiVars, callVars, clientVars>>

\* export_model: the model directory and the combined file. An exception
\* here (os.makedirs, or mesh.export on an I/O error or a file_type it does
\* not know) goes to the except clause of export_model.
ExportCombined ==
    /\ pc = "generated" /\ success
    /\ \E io \in BOOLEAN :
         LET fmt    == options.format
             path   == CombinedPath(model_id, fmt)
             raised == ~io \/ fmt \notin LibraryFormats
         IN  IF raised
             THEN /\ result' = ExportFailureDescriptor(model_id, property.property_id, <<>>)
                  /\ events' = events \cup {"export_started"}
                                      \cup (IF io THEN {} ELSE {"io_failed"})
                  /\ pc' = "done"
                  /\ UNCHANGED <<files, disk>>
             ELSE /\ files' = <<FileRecord("combined", None, fmt, path)>>
                  /\ disk' = disk \cup {path}
                  /\ events' = events \cup {"export_started"}
                  /\ pc' = "export_terrain"
                  /\ UNCHANGED result
    /\ UNCHANGED <<property, options, model_id, terrain_model, building_models,
                   combined_mesh, success, meshes, idx, nextUuid, aiVars, callVars, clientVars>>

\* export_model: the terrain file, named with a fresh uuid
ExportTerrain ==
    /\ pc = "export_terrain"
    /\ IF terrain_model.created /\ terrain_model.mesh.some
       THEN \E io \in BOOLEAN :
              LET fmt == options.format
                  p   == ExportModel(TerrainPath(model_id, nextUuid, fmt), fmt, io)
              IN  /\ nextUuid' = nextUuid + 1
                  /\ disk' = IF p.some THEN disk \cup {p.path} ELSE disk
                  /\ files' = IF p.some
                              THEN Append(files, FileRecord("terrain", None, fmt, p.path))
                              ELSE files
                  /\ events' = events \cup (IF io THEN {} ELSE {"io_failed"})
       ELSE UNCHANGED <<nextUuid, disk, files, events>>
    /\ idx' = 1
    /\ pc' = "export_buildings"
    /\ UNCHANGED <<property, options, model_id, terrain_model, building_models,
                   combined_mesh, success, meshes, result, aiVars, callVars, clientVars>>

\* export_model: one turn of the loop over building_models
ExportBuilding ==
    /\ pc = "export_buildings"
    /\ idx <= Len(building_models)
    /\ \E io \in BOOLEAN :
         LET fmt == options.format
             b   == building_models[idx].building
             p   == ExportModel(BuildingPath(model_id, b.id, fmt), fmt, io)
         IN  /\ disk' = IF p.some THEN disk \cup {p.path} ELSE disk
             /\ files' = IF p.some
                         THEN Append(files, FileRecord("building", Some(b.id), fmt, p.path))
                         ELSE files
             /\ events' = events \cup (IF io THEN {} ELSE {"io_failed"})
    /\ idx' = idx + 1
    /\ UNCHANGED <<pc, property, options, model_id, terrain_model, building_models,
                   combined_mesh, success, meshes, result, nextUuid, aiVars, callVars, clientVars>>

\* export_model: metadata.json and the return, after the loop
SaveMetadata ==
    /\ pc = "export_buildings"
    /\ idx > Len(building_models)
    /\ \E io \in BOOLEAN :
         IF io
         THEN /\ disk' = disk \cup {MetadataPath(model_id)}
              /\ result' = SuccessDescriptor(model_id, property.property_id, files)
              /\ UNCHANGED events
         ELSE /\ result' = ExportFailureDescriptor(model_id, property.property_id, files)
              /\ events' = events \cup {"io_failed"}
              /\ UNCHANGED disk
    /\ pc' = "done"
    /\ UNCHANGED <<property, options, model_id, terrain_model, building_models,
                   combined_mesh, success, meshes, files, idx, nextUuid, aiVars, callVars, clientVars>>

----------------------------------------------------------------------------
(* generate_model_with_ai_analysis *)

\* `generate_model` is a name modeling_3d.py neither defines nor imports:
\* evaluating the call raises NameError
AwaitGenerateModel == Raised("NameError")

\* AlterraML.analyze_property is a plain method returning a dictionary:
\* awaiting its result raises TypeError
AwaitAnalyzeProperty == Raised("TypeError")

\* the call: the module's ai_engine is there or not, property_data fits
\* PropertyData or not, and the analysis would suggest some buildings
AIStart ==
    /\ pc = "idle" /\ aiPc = "idle"
    /\ \E e \in BOOLEAN, v \in BOOLEAN, k \in 0..MaxSuggested :
         aiIn' = [engine |-> e, valid |-> v, suggested |-> k]
    /\ aiPc' = "check_engine"
    /\ UNCHANGED <<pipelineVars, callVars, clientVars, aiOutcome>>

\* `if not ai_engine: return await generate_model(...)`
AIEngineMissing ==
    /\ aiPc = "check_engine" /\ ~aiIn.engine
    /\ aiOutcome' = AwaitGenerateModel
    /\ aiPc' = "done"
    /\ UNCHANGED <<pipelineVars, callVars, clientVars, aiIn>>

\* the try block up to the analysis: PropertyData(**property_data) raises on
\* data that does not fit, and the await of the analysis raises
AIAnalyse ==
    /\ aiPc = "check_engine" /\ aiIn.engine
    /\ aiPc' = IF ~aiIn.valid \/ AwaitAnalyzeProperty.kind = "raised"
               THEN "handler" ELSE "base_model"
    /\ UNCHANGED <<pipelineVars, callVars, clientVars, aiIn, aiOutcome>>

\* the except clause: `return await generate_model(...)`
AIHandler ==
    /\ aiPc = "handler"
    /\ aiOutcome' = AwaitGenerateModel
    /\ aiPc' = "done"
    /\ UNCHANGED <<pipelineVars, callVars, clientVars, aiIn>>

RECURSIVE EnhanceLoop(_, _)
\* the loop over optimization["suggested_buildings"]: each suggested box is
\* concatenated to the model built so far
EnhanceLoop(existing_model, k) ==
    IF k = 0 THEN existing_model
    ELSE EnhanceLoop(Concatenate(<<existing_model, BoxMesh>>), k - 1)

----------------------------------------------------------------------------

Next ==
    \/ StartRun
    \/ TerrainStage
    \/ BuildingStage
    \/ ComposeStage
    \/ GenerateFailed
    \/ ExportCombined
    \/ ExportTerrain
    \/ ExportBuilding
    \/ SaveMetadata
    \/ AIStart
    \/ AIEngineMissing
    \/ AIAnalyse
    \/ AIHandler

Spec == Init /\ [][Next]_vars

----------------------------------------------------------------------------
(* Geometry: the vertex coordinates of one terrain mesh *)

MaxCallResolutionH == 5
MaxPattern == 3
MaxMultiplier == 2

\* The height grids the calls are made on: height_data[i][j] in metres, one
\* N x N grid per pattern p (pattern 0 is the flat grid griddata's
\* fill_value gives outside the samples)
HeightGrid(p, N) ==
    [i \in 0..(N - 1) |-> [j \in 0..(N - 1) |-> ((p * (i + 2 * j + 1)) % 5) - 2 * (p % 2)]]

Multipliers == (-1)..MaxMultiplier

TerrainVerticesScaledXY(height_data, N, radiusH, height_multiplier) ==
    [k \in 1..(N * N) |->
        LET i == (k - 1) \div N
            j == (k - 1) % N
        IN  [xn |-> radiusH * (2 * j - N) * height_multiplier,
             yn |-> radiusH * (2 * i - N) * height_multiplier,
             z  |-> height_data[i][j] * height_multiplier]]

\* The vertex array of generate_mesh, in the order of its loops (row i, then
\* column j). With scale_factor = radius * 2 / grid_size the code's
\* x = j * scale_factor - radius is radiusH * (2j - N) / (2N) metres: xn and yn
\* are the numerators over 2N, z is in metres.
TerrainVertices(height_data, N, radiusH, height_multiplier) ==
    [k \in 1..(N * N) |->
        LET i == (k - 1) \div N
            j == (k - 1) % N
        IN  [xn |-> radiusH * (2 * j - N),
             yn |-> radiusH * (2 * i - N),
             z  |-> height_data[i][j] * height_multiplier]]

\* TerrainModel.generate_mesh on a stored N x N grid: the array of vertices
\* next to the mesh made of it
TerrainGeometry(height_data, N, radiusH, height_multiplier, libRaises) ==
    LET g == TerrainGenerateMesh(Some(N), libRaises)
    IN  [ok |-> g.ok, mesh |-> g.mesh,
         vertices |-> IF g.ok
                      THEN TerrainVertices(height_data, N, radiusH, height_multiplier)
                      ELSE <<>>]

----------------------------------------------------------------------------
(* Geometry: the dimensions and the vertex coordinates of one building mesh *)

\* Lengths and coordinates are whole numbers of 1/Unit metre, which holds
\* every half, 0.7, 1.5 and 2 times a length of this section exactly.
Unit == 80

FloorHeight == 3
DefaultWidth == 10
DefaultLength == 8
MaxFloors == 3

RECURSIVE ISqrt(_)
\* the integer part of the square root of n >= 0
ISqrt(n) ==
    IF n < 2 THEN n
    ELSE LET s == 2 * ISqrt(n \div 4)
         IN  IF (s + 1) * (s + 1) > n THEN s ELSE s + 1

\* math.sqrt(gross_area / floors) for a quotient that is not negative, in
\* units, rounded down to a twentieth of a metre (gross_area in m2)
SqrtAreaPerFloor(gross_area, floors) ==
    LET q400 == IF floors < 0 THEN ((-gross_area) * 400) \div (-floors)
                              ELSE (gross_area * 400) \div floors
    IN  (Unit \div 20) * ISqrt(q400)

DimensionsOneFloor(b) ==
    LET floors == Floors(b)
    IN  IF Truthy(b.gross_area) /\ SqrtRaises(b.gross_area.v, floors)
        THEN [raised |-> TRUE, floors |-> floors, width |-> 0, length |-> 0, height |-> 0]
        ELSE [raised |-> FALSE, floors |-> floors,
              width  |-> IF Truthy(b.gross_area)
                         THEN SqrtAreaPerFloor(b.gross_area.v, 1)
                         ELSE DefaultWidth * Unit,
              length |-> IF Truthy(b.gross_area)
                         THEN SqrtAreaPerFloor(b.gross_area.v, 1)
                         ELSE DefaultLength * Unit,
              height |-> FloorHeight * Unit]

\* generate_mesh up to the dispatch: floors, width, length and height, or
\* the exception of math.sqrt
Dimensions(b) ==
    LET floors == Floors(b)
    IN  IF Truthy(b.gross_area) /\ SqrtRaises(b.gross_area.v, floors)
        THEN [raised |-> TRUE, floors |-> floors, width |-> 0, length |-> 0, height |-> 0]
        ELSE [raised |-> FALSE, floors |-> floors,
              width  |-> IF Truthy(b.gross_area)
                         THEN SqrtAreaPerFloor(b.gross_area.v, floors)
                         ELSE DefaultWidth * Unit,
              length |-> IF Truthy(b.gross_area)
                         THEN SqrtAreaPerFloor(b.gross_area.v, floors)
                         ELSE DefaultLength * Unit,
              height |-> floors * FloorHeight * Unit]

BoxVerticesCornered(ex, ey, ez) ==
    [k \in 1..8 |->
        LET c == k - 1
        IN  << IF c \div 4 = 1 THEN ex ELSE 0,
               IF (c \div 2) % 2 = 1 THEN ey ELSE 0,
               IF c % 2 = 1 THEN ez ELSE 0 >>]

\* The vertices of trimesh.creation.box(extents): the corners of the unit
\* cube in the order 000, 001, 010, ... 111, centred on the origin and scaled
BoxVertices(ex, ey, ez) ==
    [k \in 1..8 |->
        LET c == k - 1
        IN  << (IF c \div 4 = 1 THEN ex ELSE -ex) \div 2,
               (IF (c \div 2) % 2 = 1 THEN ey ELSE -ey) \div 2,
               (IF c % 2 = 1 THEN ez ELSE -ez) \div 2 >>]

\* mesh.apply_translation
Translate(vs, t) ==
    [k \in 1..Len(vs) |-> <<vs[k][1] + t[1], vs[k][2] + t[2], vs[k][3] + t[3]>>]

\* roof_vertices of _create_house_mesh, as the array is written
RoofVertices(width, length, base_height, height) ==
    << <<width \div 2, length \div 2, base_height>>,
       <<-(width \div 2), -(length \div 2), base_height>>,
       <<width \div 2, -(length \div 2), base_height>>,
       <<-(width \div 2), length \div 2, base_height>>,
       <<width \div 2, length \div 2, base_height>>,
       <<0, 0, height>> >>

\* _create_house_mesh for a BuildingModel of ground level ground (the
\* attribute self.base_height); base_height is the local of that name
CreateHouseMesh(width, length, height, ground) ==
    LET base_height == (height * 7) \div 10
        box  == BoxVertices(width, length, base_height)
        roof == RoofVertices(width, length, base_height, height)
    IN  [generator |-> "house", nbox |-> 8, faces |-> HouseMesh.faces,
         vertices |-> Translate(box \o roof, <<0, 0, ground + base_height \div 2>>)]

\* _create_apartment_building_mesh, _create_commercial_building_mesh and
\* _create_generic_building_mesh: one box, its plan scaled by num / den
CreateBoxMesh(generator, num, den, width, length, height, ground) ==
    [generator |-> generator, nbox |-> 8, faces |-> BoxFaces,
     vertices |-> Translate(BoxVertices((width * num) \div den, (length * num) \div den, height),
                            <<0, 0, ground + height \div 2>>)]

DispatchAllGeneric(building_type, width, length, height, ground) ==
    IF building_type \in HouseTypes
    THEN CreateHouseMesh(width, length, height, ground)
    ELSE CreateBoxMesh("generic", 1, 1, width, length, height, ground)

\* the if / elif chain of generate_mesh on building_type
Dispatch(building_type, width, length, height, ground) ==
    IF building_type \in HouseTypes
    THEN CreateHouseMesh(width, length, height, ground)
    ELSE IF building_type = "leilighetsbygg"
    THEN CreateBoxMesh("apartment", 3, 2, width, length, height, ground)
    ELSE IF building_type \in CommercialTypes
    THEN CreateBoxMesh("commercial", 2, 1, width, length, height, ground)
    ELSE CreateBoxMesh("generic", 1, 1, width, length, height, ground)

NoGeometry == [generator |-> "none", nbox |-> 0, faces |-> <<>>, vertices |-> <<>>]

\* BuildingModel(building, base_height = ground).generate_mesh(): what it
\* returns, the locals it computed and the mesh it left in self.mesh
BuildingGeometry(b, ground) ==
    LET d == Dimensions(b)
    IN  IF d.raised
        THEN [ok |-> FALSE, dims |-> d, geometry |-> NoGeometry]
        ELSE [ok |-> TRUE, dims |-> d,
              geometry |-> Dispatch(b.building_type, d.width, d.length, d.height, ground)]

----------------------------------------------------------------------------
(* Single calls on one TerrainModel or one BuildingModel *)

BuildingTypes ==
    {"enebolig", "tomannsbolig", "rekkehus", "leilighetsbygg", "hytte",
     "naeringsbygg", "industribygg", "landbruksbygg", "offentlig_bygg", "annet"}

\* gross areas in m2 and ground levels in metres the calls are made with
Areas == {-50, 0, 18, 50, 128}
GroundLevels == {-2, 0, 5}

\* generate_mesh(height_multiplier) on a TerrainModel whose stored grid came
\* from its radius and resolution
TerrainCalls ==
    {[kind |-> "terrain", radiusH |-> r, resolutionH |-> q, pattern |-> p,
      height_multiplier |-> m] :
        r \in 1..MaxRadiusH, q \in 1..MaxCallResolutionH, p \in 0..MaxPattern,
        m \in Multipliers}

\* _generate_terrain on a provider answer
FetchCalls ==
    {[kind |-> "fetch", resp |-> a, radiusH |-> r, resolutionH |-> q] :
        a \in ProviderResponses, r \in 1..MaxRadiusH, q \in 1..MaxResolutionH}

\* generate_mesh() on a BuildingModel
BuildingCalls ==
    {[kind |-> "building",
      building |-> [id |-> 1, building_type |-> t, number_of_floors |-> f,
                    gross_area |-> a],
      ground |-> g * Unit] :
        t \in BuildingTypes,
        f \in {None} \cup {Some(n) : n \in (-1)..MaxFloors},
        a \in {None} \cup {Some(n) : n \in Areas},
        g \in GroundLevels}

CallInit ==
    /\ PipelineInit
    /\ callPc = "ready"
    /\ callIn \in TerrainCalls \cup FetchCalls \cup BuildingCalls
    /\ callOut = [kind |-> "none"]
    /\ ClientDefault

TerrainGenerateMeshCall ==
    /\ callPc = "ready" /\ callIn.kind = "terrain"
    /\ \E libRaises \in BOOLEAN :
         LET N == GridSize(callIn.radiusH, callIn.resolutionH)
             g == TerrainGeometry(HeightGrid(callIn.pattern, N), N, callIn.radiusH,
                                  callIn.height_multiplier, libRaises)
         IN  callOut' = [kind |-> "terrain", ok |-> g.ok, mesh |-> g.mesh,
                         vertices |-> g.vertices]
    /\ callPc' = "returned"
    /\ UNCHANGED <<callIn, pipelineVars, aiVars, clientVars>>

GenerateTerrainCall ==
    /\ callPc = "ready" /\ callIn.kind = "fetch"
    /\ \E libRaises \in BOOLEAN :
         LET g == GenerateTerrain(callIn.resp, callIn.radiusH, callIn.resolutionH,
                                  libRaises)
         IN  callOut' = [kind |-> "fetch", ok |-> g.ok,
                         terrain_model |-> g.terrain_model]
    /\ callPc' = "returned"
    /\ UNCHANGED <<callIn, pipelineVars, aiVars, clientVars>>

BuildingGenerateMeshCall ==
    /\ callPc = "ready" /\ callIn.kind = "building"
    /\ LET g == BuildingGeometry(callIn.building, callIn.ground)
       IN  callOut' = [kind |-> "building", ok |-> g.ok, dims |-> g.dims,
                       geometry |-> g.geometry]
    /\ callPc' = "returned"
    /\ UNCHANGED <<callIn, pipelineVars, aiVars, clientVars>>

CallNext ==
    \/ TerrainGenerateMeshCall
    \/ GenerateTerrainCall
    \/ BuildingGenerateMeshCall

CallSpec == CallInit /\ [][CallNext]_vars

----------------------------------------------------------------------------
(* _make_request as called by the runs through the shared client *)

ClientInit ==
    /\ PipelineInit
    /\ callPc = "idle"
    /\ callIn = [kind |-> "none"]
    /\ callOut = [kind |-> "none"]
    /\ \E R \in 0..MaxRetries, T \in {1, MaxCacheTimeout} :
         ClientConstructed([max_retries |-> R, cache_timeout |-> T])

\* _make_request, its first statements: current_time is taken and
\* last_request_time is read for the rate limit (the pause of the rate limit
\* is shorter than a second, the unit of the clock)
Enter(r) ==
    /\ req[r].pc = "idle"
    /\ \E m \in Methods, k \in Keys :
         req' = [req EXCEPT ![r] =
                    [NoRequest EXCEPT !.pc = "cache_check", !.method = m, !.key = k,
                                      !.current_time = clock,
                                      !.foreign = Foreign(r, [last_request_time |->
                                                                last_request_time.writer])]]
    /\ UNCHANGED <<clock, cache, last_request_time, config, pipelineVars, aiVars, callVars>>

\* the cache check: a hit returns the cached data, anything else goes on to
\* the retry loop with retries = 0
CacheCheck(r) ==
    /\ req[r].pc = "cache_check"
    /\ LET q     == req[r]
           entry == cache[q.key]
       IN  IF UsesCache(q.method)
           THEN IF CacheHit(entry, q.current_time, config.cache_timeout)
                THEN req' = [req EXCEPT ![r] =
                               [q EXCEPT !.pc = "returned", !.from_cache = TRUE,
                                         !.data = entry.data, !.current_time = 0,
                                         !.foreign = @ \cup Foreign(r, [cache |-> entry.writer])]]
                ELSE req' = [req EXCEPT ![r] =
                               [q EXCEPT !.pc = "attempt", !.current_time = 0,
                                         !.foreign = @ \cup Foreign(r, [cache |-> entry.writer])]]
           ELSE req' = [req EXCEPT ![r] = [q EXCEPT !.pc = "attempt", !.current_time = 0]]
    /\ UNCHANGED <<clock, cache, last_request_time, config, pipelineVars, aiVars, callVars>>

\* the except clause of the retry loop for run r after a failed attempt:
\* json_error tells whether the error response's body fails to parse when
\* the KartverketAPIError is built
AfterRequestException(q, transport, json_error) ==
    LET retries == q.retries + 1
    IN  IF retries > config.max_retries
        THEN [q EXCEPT !.pc = "raised", !.retries = retries,
                       !.attempts = @ + 1,
                       !.only_transport = @ /\ transport,
                       !.error = IF ~transport /\ json_error
                                 THEN "JSONDecodeError" ELSE "KartverketAPIError"]
        ELSE [q EXCEPT !.pc = "sleeping", !.retries = retries,
                       !.attempts = @ + 1,
                       !.only_transport = @ /\ transport,
                       !.waits = Append(@, Backoff(retries)),
                       !.wake = clock + Backoff(retries)]

\* one turn of the retry loop: the request and what follows it
Attempt(r) ==
    /\ req[r].pc = "attempt"
    /\ \E reply \in Replies, json_error \in BOOLEAN :
         LET q == req[r]
             stamped == [written |-> TRUE, writer |-> r]
         IN  IF reply.kind \in {"json", "empty_body"}
             THEN /\ last_request_time' = stamped
                  /\ cache' = IF UsesCache(q.method)
                              THEN [cache EXCEPT ![q.key] =
                                      [some |-> TRUE, data |-> reply.data,
                                       timestamp |-> clock, writer |-> r]]
                              ELSE cache
                  /\ req' = [req EXCEPT ![r] =
                               [q EXCEPT !.pc = "returned", !.attempts = @ + 1,
                                         !.data = reply.data,
                                         !.foreign = @ \cup Foreign(r,
                                            IF UsesCache(q.method)
                                            THEN [last_request_time |-> last_request_time.writer,
                                                  cache |-> cache[q.key].writer]
                                            ELSE [last_request_time |-> last_request_time.writer])]]
             ELSE IF reply.kind = "non_json"
             THEN /\ last_request_time' = stamped
                  /\ req' = [req EXCEPT ![r] =
                               [q EXCEPT !.pc = "raised", !.attempts = @ + 1,
                                         !.only_transport = FALSE,
                                         !.error = "KartverketAPIError",
                                         !.foreign = @ \cup Foreign(r,
                                            [last_request_time |-> last_request_time.writer])]]
                  /\ UNCHANGED cache
             ELSE IF reply.kind = "http_error"
             THEN /\ last_request_time' = stamped
                  /\ req' = [req EXCEPT ![r] =
                               [AfterRequestException(q, FALSE, json_error)
                                  EXCEPT !.foreign = @ \cup Foreign(r,
                                            [last_request_time |-> last_request_time.writer])]]
                  /\ UNCHANGED cache
             ELSE /\ req' = [req EXCEPT ![r] = AfterRequestException(q, TRUE, json_error)]
                  /\ UNCHANGED <<cache, last_request_time>>
    /\ UNCHANGED <<clock, config, pipelineVars, aiVars, callVars>>

\* time.sleep(2 ** retries) is over
Wake(r) ==
    /\ req[r].pc = "sleeping"
    /\ clock >= req[r].wake
    /\ req' = [req EXCEPT ![r] = [@ EXCEPT !.pc = "attempt", !.wake = 0]]
    /\ UNCHANGED <<clock, cache, last_request_time, config, pipelineVars, aiVars, callVars>>

\* a second passes; the statements of _make_request between two sleeps take
\* no time on this clock
Tick ==
    /\ clock < MaxClock
    /\ \A r \in Runs : req[r].pc \notin {"cache_check", "attempt"}
    /\ clock' = clock + 1
    /\ UNCHANGED <<cache, last_request_time, config, req, pipelineVars, aiVars, callVars>>

ClientNext ==
    \/ \E r \in Runs : Enter(r)
    \/ \E r \in Runs : CacheCheck(r)
    \/ \E r \in Runs : Attempt(r)
    \/ \E r \in Runs : Wake(r)
    \/ Tick

ClientSpec == ClientInit /\ [][ClientNext]_vars

----------------------------------------------------------------------------
(* Properties *)

Types(fs) == {fs[i].type : i \in 1..Len(fs)}

SynthOk(b) == BuildingGenerateMesh(b).ok

RECURSIVE SumNv(_, _)
\* vertices of the first n meshes of ms
SumNv(ms, n) == IF n = 0 THEN 0 ELSE SumNv(ms, n - 1) + ms[n].nv

RECURSIVE SumFaces(_, _)
\* faces of the first n meshes of ms
SumFaces(ms, n) == IF n = 0 THEN 0 ELSE SumFaces(ms, n - 1) + Len(ms[n].faces)

\* every face of m has its three indices in [0, m.nv)
IndexSafe(m) ==
    \A i \in 1..Len(m.faces) :
        \A c \in 1..3 : m.faces[i][c] >= 0 /\ m.faces[i][c] < m.nv

\* c holds the vertices and faces of the meshes ms, in order, the faces of
\* each offset by the vertex count of the meshes before it
ComposedOf(c, ms) ==
    /\ c.nv = SumNv(ms, Len(ms))
    /\ Len(c.faces) = SumFaces(ms, Len(ms))
    /\ \A i \in 1..Len(ms) :
         LET vertsBefore == SumNv(ms, i - 1)
             facesBefore == SumFaces(ms, i - 1)
         IN  \A f \in 1..Len(ms[i].faces) :
               \A k \in 1..3 :
                 c.faces[facesBefore + f][k] = ms[i].faces[f][k] + vertsBefore

NoOtherFailure ==
    /\ "terrain_failed" \notin events
    /\ "io_failed" \notin events

\* C1: with include_terrain and include_buildings, a provider answer of zero
\* points and a property of at least one building, the run ends without an
\* error, its files hold no terrain record and at least one building or
\* combined record (here for runs whose exports all succeed).
C1_ZeroPointsDegrades ==
    ( /\ pc = "done"
      /\ options.include_terrain /\ options.include_buildings
      /\ "zero_points" \in events
      /\ Len(property.buildings) >= 1
      /\ \A i \in 1..Len(property.buildings) : SynthOk(property.buildings[i])
      /\ options.format \in SupportedFormats
      /\ "io_failed" \notin events )
    => ( /\ ~result.error
         /\ "terrain" \notin Types(result.files)
         /\ Types(result.files) \cap {"building", "combined"} # {} )

\* C2: once generate_model has returned, a failed terrain stage has not kept
\* the building stage from running over the building list, nor the
\* composition from running without the terrain.
C2_TerrainFailureNotFatal ==
    (pc = "generated" /\ "terrain_failed" \in events)
    => ( /\ options.include_buildings => "buildings_ran" \in events
         /\ "compose_ran" \in events )

\* C3: when some building of the list fails mesh synthesis, the building
\* models are exactly the other buildings, in order; their meshes are the
\* building part of the composed scene; each has its record in the files of
\* a successful run whose exports succeed; and with nothing else failing
\* and at least one of them left the run is not failed.
C3_FailedBuildingSkipped ==
    ( /\ "buildings_ran" \in events
      /\ \E i \in 1..Len(property.buildings) : ~SynthOk(property.buildings[i]) )
    => LET good == SelectSeq(property.buildings, SynthOk)
           part == SelectSeq(meshes, LAMBDA e : e.origin = "building")
           recs == SelectSeq(result.files, LAMBDA r : r.type = "building")
       IN  /\ Len(building_models) = Len(good)
           /\ \A i \in 1..Len(good) : building_models[i].building = good[i]
           /\ "compose_ran" \in events =>
                /\ Len(part) = Len(good)
                /\ \A i \in 1..Len(good) : part[i].mesh = building_models[i].mesh
                /\ good # <<>> => combined_mesh.some
                /\ pc = "generated" => ComposedOf(combined_mesh, MeshesOf(meshes))
           /\ ( /\ pc = "done" /\ ~result.error
                /\ options.format \in SupportedFormats
                /\ "io_failed" \notin events )
              => /\ Len(recs) = Len(good)
                 /\ \A i \in 1..Len(good) : recs[i].building_id = Some(good[i].id)
           /\ ( /\ pc = "done" /\ NoOtherFailure
                /\ options.format \in LibraryFormats
                /\ good # <<>> )
              => ~result.error

C3_Witness ==
    /\ pc = "done" /\ ~result.error
    /\ \E i \in 1..Len(property.buildings) : ~SynthOk(property.buildings[i])
    /\ "building" \in Types(result.files)

\* C4: the composing stage fails exactly when there is neither a terrain
\* mesh nor a building mesh; then the run is a failure, and otherwise the
\* stage succeeds and leaves a combined mesh.
C4_ComposeFailsIffEmpty ==
    "compose_ran" \in events =>
        LET empty == ~terrain_model.mesh.some /\ building_models = <<>>
        IN  /\ "compose_failed" \in events <=> empty
            /\ empty => /\ ~combined_mesh.some
                        /\ pc = "generated" => ~success
                        /\ pc = "done" => result.error
            /\ ~empty => /\ combined_mesh.some
                         /\ pc = "generated" => success

C4_Witness ==
    /\ pc = "done" /\ "compose_failed" \in events /\ result.error
    /\ ~terrain_model.mesh.some /\ building_models = <<>>

\* C5: a run in which some I/O of the exporting stage failed ends with an
\* error returned to the caller.
C5_ExportFailureIsFatal ==
    (pc = "done" /\ "io_failed" \in events) => result.error

\* C6: no file written is ever removed, and the dictionary returned by a run
\* that failed in the exporting stage references no file.
C6_NoRollbackNoReference ==
    /\ [][disk \subseteq disk']_vars
    /\ []( (pc = "done" /\ result.error /\ "export_started" \in events)
           => /\ result.files = <<>>
              /\ \A i \in 1..Len(result.files) : result.files[i].path \notin disk )

C6_Witness ==
    /\ pc = "done" /\ result.error /\ "export_started" \in events
    /\ disk # {}

\* C7: a call of generate_model_with_ai_analysis in which the extension
\* fails ends by returning a descriptor, not by raising.
C7_AIFailureFallsBack ==
    aiPc = "done" => aiOutcome.kind = "returned"

\* C8: a call with the AI engine present, fitting property data and at least
\* one suggested building returns a descriptor with ai_enhanced true and
\* exactly one ai_enhanced record.
C8_AIEnhancedDescriptor ==
    (aiPc = "done" /\ aiIn.engine /\ aiIn.valid /\ aiIn.suggested >= 1)
    => /\ aiOutcome.kind = "returned"
       /\ aiOutcome.ai_enhanced
       /\ Len(SelectSeq(aiOutcome.files, LAMBDA r : r.type = "ai_enhanced")) = 1

\* C9: in a run with include_terrain false the provider is never called,
\* there is no terrain model, the scene composed by generate_model is made
\* of the building meshes alone and no terrain record is in the files.
C9_TerrainSkipped ==
    (pc # "idle" /\ ~options.include_terrain)
    => /\ "provider_called" \notin events
       /\ ~terrain_model.created
       /\ \A i \in 1..Len(meshes) : meshes[i].origin # "terrain"
       /\ (pc = "generated" /\ combined_mesh.some) =>
            ComposedOf(combined_mesh,
                       [i \in 1..Len(building_models) |-> building_models[i].mesh])
       /\ "terrain" \notin Types(files)
       /\ "terrain" \notin Types(result.files)
       /\ \A p \in disk : p.kind # "terrain"

C9_Witness ==
    /\ pc = "done" /\ ~options.include_terrain
    /\ ~result.error /\ "building" \in Types(result.files)

\* C10: every composed mesh (the house of box and roof, the combined mesh
\* of a run when generate_model returns, and that mesh with any number of
\* suggested boxes concatenated to it one by one) has all face indices in
\* [0, vertex count), and holds the faces of each input offset by the
\* vertices before it.
C10_IndexSafety ==
    /\ IndexSafe(HouseMesh)
    /\ ComposedOf(HouseMesh, <<BoxMesh, RoofMesh>>)
    /\ (pc = "generated" /\ combined_mesh.some) =>
         /\ IndexSafe(combined_mesh)
         /\ ComposedOf(combined_mesh, MeshesOf(meshes))
         /\ \A k \in 0..MaxSuggested :
              /\ IndexSafe(EnhanceLoop(combined_mesh, k))
              /\ ComposedOf(EnhanceLoop(combined_mesh, k),
                            <<combined_mesh>> \o [j \in 1..k |-> BoxMesh])

C10_Witness ==
    /\ pc = "generated" /\ combined_mesh.some
    /\ Len(meshes) >= 3
    /\ meshes[1].origin = "terrain"
    /\ \E i \in 1..Len(building_models) :
         building_models[i].building.building_type \in HouseTypes

\* C11: when generate_model has composed the scene, the combined mesh has as
\* many vertices as the composed meshes have together and as many faces as
\* they have together; composed of a terrain mesh and no building mesh, it
\* is that terrain mesh, vertex count and faces unchanged.
C11_ComposeCounts ==
    (pc = "generated" /\ "compose_ran" \in events /\ combined_mesh.some)
    => /\ combined_mesh.nv = SumNv(MeshesOf(meshes), Len(meshes))
       /\ Len(combined_mesh.faces) = SumFaces(MeshesOf(meshes), Len(meshes))
       /\ Len(meshes) = (IF terrain_model.mesh.some THEN 1 ELSE 0) + Len(building_models)
       /\ (terrain_model.mesh.some /\ building_models = <<>>)
            => /\ combined_mesh.nv = terrain_model.mesh.nv
               /\ combined_mesh.faces = terrain_model.mesh.faces

C11_Witness ==
    /\ pc = "generated" /\ "compose_ran" \in events
    /\ terrain_model.mesh.some /\ terrain_model.mesh.nv >= 4
    /\ "buildings_ran" \in events /\ building_models = <<>>
    /\ combined_mesh = terrain_model.mesh

\* the side of the grid a terrain call is made on
CallGridSide == GridSize(callIn.radiusH, callIn.resolutionH)

\* C12: generate_mesh on an N x N height grid with N >= 2 succeeds and
\* leaves N*N vertices and 2*(N-1)*(N-1) faces, every face made of three
\* different vertex indices, each of them below N*N.
C12_GridMeshCounts ==
    (callPc = "returned" /\ callIn.kind = "terrain" /\ CallGridSide >= 2)
    => LET N == CallGridSide
           m == callOut.mesh
       IN  /\ callOut.ok /\ m.some
           /\ m.nv = N * N
           /\ Len(callOut.vertices) = N * N
           /\ Len(m.faces) = (N - 1) * (N - 1) * 2
           /\ \A f \in 1..Len(m.faces) :
                /\ Cardinality({m.faces[f][1], m.faces[f][2], m.faces[f][3]}) = 3
                /\ \A c \in 1..3 : m.faces[f][c] \in 0..(N * N - 1)

C12_Witness ==
    /\ callPc = "returned" /\ callIn.kind = "terrain"
    /\ CallGridSide >= 3
    /\ callOut.ok /\ Len(callOut.mesh.faces) >= 8

\* C13: for the height grid of a terrain call, the mesh generated with the
\* call's height_multiplier and the mesh generated with any other one (zero
\* and negative ones included) have the same number of vertices, the same x
\* and y at every vertex and the same faces; the z of every vertex is its
\* height times the multiplier.
C13_MultiplierOnlyScalesZ ==
    (callPc = "returned" /\ callIn.kind = "terrain" /\ callOut.ok)
    => LET N == CallGridSide
           h == HeightGrid(callIn.pattern, N)
           v == callOut.vertices
       IN  /\ \A k \in 1..Len(v) :
                v[k].z = h[(k - 1) \div N][(k - 1) % N] * callIn.height_multiplier
           /\ \A m2 \in Multipliers :
                LET other == TerrainGeometry(h, N, callIn.radiusH, m2, FALSE)
                IN  /\ other.ok
                    /\ Len(other.vertices) = Len(v)
                    /\ other.mesh.nv = callOut.mesh.nv
                    /\ other.mesh.faces = callOut.mesh.faces
                    /\ \A k \in 1..Len(v) :
                         /\ other.vertices[k].xn = v[k].xn
                         /\ other.vertices[k].yn = v[k].yn
                         /\ other.vertices[k].z =
                              h[(k - 1) \div N][(k - 1) % N] * m2

C13_Witness ==
    /\ callPc = "returned" /\ callIn.kind = "terrain" /\ callOut.ok
    /\ CallGridSide >= 2
    /\ callIn.height_multiplier < 0
    /\ \E k \in 1..Len(callOut.vertices) : callOut.vertices[k].z > 0

\* C14: _generate_terrain on a provider answer of 0, 1 or 2 points fails: the
\* terrain model is left without height data and without a mesh.
C14_FewSamplesFail ==
    ( /\ callPc = "returned" /\ callIn.kind = "fetch"
      /\ callIn.resp.kind = "points" /\ callIn.resp.n < 3 )
    => /\ ~callOut.ok
       /\ ~callOut.terrain_model.height_data.some
       /\ ~callOut.terrain_model.mesh.some

C14_Witness ==
    /\ callPc = "returned" /\ callIn.kind = "fetch"
    /\ callIn.resp.kind = "points" /\ callIn.resp.n = 2
    /\ GridSize(callIn.radiusH, callIn.resolutionH) >= 2
    /\ ~callOut.ok /\ callOut.terrain_model.created

\* the values of coordinate c (1 = x, 2 = y, 3 = z) over the vertices vs
Coords(vs, c) == {vs[k][c] : k \in 1..Len(vs)}

MinOf(S) == CHOOSE m \in S : \A x \in S : m <= x
MaxOf(S) == CHOOSE m \in S : \A x \in S : m >= x

\* C15: for every building type and every ground level, the lowest z over
\* the vertices of a synthesized building mesh is the ground level, and its
\* x and y extents are symmetric about 0 (for floor counts of at least 1 or
\* left unspecified).
C15_BaseAtGroundAndCentred ==
    ( /\ callPc = "returned" /\ callIn.kind = "building"
      /\ callOut.ok /\ callOut.dims.floors >= 1 )
    => LET v == callOut.geometry.vertices
       IN  /\ v # <<>>
           /\ MinOf(Coords(v, 3)) = callIn.ground
           /\ MinOf(Coords(v, 1)) = -MaxOf(Coords(v, 1))
           /\ MinOf(Coords(v, 2)) = -MaxOf(Coords(v, 2))
           /\ MaxOf(Coords(v, 1)) > 0 /\ MaxOf(Coords(v, 2)) > 0

C15_Witness ==
    /\ callPc = "returned" /\ callIn.kind = "building" /\ callOut.ok
    /\ callIn.building.building_type = "enebolig"
    /\ callIn.ground # 0
    /\ callOut.dims.floors = 2
    /\ MinOf(Coords(callOut.geometry.vertices, 3)) = callIn.ground

\* C16: in the mesh of a house of total height H on ground level h the
\* vertices of the prism have z in [h, h + 0.7 H], the vertices of the roof
\* have z in [h + 0.7 H, h + H], the apex is at (0, 0, h + H), and the base
\* loop of the roof is at the z of the top of the prism.
C16_RoofOnPrism ==
    ( /\ callPc = "returned" /\ callIn.kind = "building" /\ callOut.ok
      /\ callOut.geometry.generator = "house" /\ callOut.dims.floors >= 1 )
    => LET v     == callOut.geometry.vertices
           h     == callIn.ground
           H     == callOut.dims.height
           eaves == h + (H * 7) \div 10
           prism == SubSeq(v, 1, callOut.geometry.nbox)
           roof  == SubSeq(v, callOut.geometry.nbox + 1, Len(v))
       IN  /\ MinOf(Coords(prism, 3)) = h
           /\ MaxOf(Coords(prism, 3)) = eaves
           /\ MinOf(Coords(roof, 3)) = eaves
           /\ MaxOf(Coords(roof, 3)) = h + H
           /\ roof[Len(roof)] = <<0, 0, h + H>>
           /\ \A k \in 1..(Len(roof) - 1) : roof[k][3] = eaves

\* C17: a synthesis on a building with a positive gross area takes a square
\* footprint of side sqrt(gross_area / floors) (to the twentieth of a metre
\* of this model), one without a gross area the footprint 10 by 8; an
\* unspecified floor count counts as 2; the height is floors * 3. The house
\* of 2 floors and 128 m2 gets side 8 and height 6.
C17_NominalDimensions ==
    ( /\ callPc = "returned" /\ callIn.kind = "building" /\ callOut.ok
      /\ ~callIn.building.gross_area.some \/ callIn.building.gross_area.v > 0
      /\ ~callIn.building.number_of_floors.some
            \/ callIn.building.number_of_floors.v >= 1 )
    => LET b      == callIn.building
           d      == callOut.dims
           side20 == d.width \div (Unit \div 20)
       IN  /\ d.floors = IF b.number_of_floors.some THEN b.number_of_floors.v ELSE 2
           /\ d.height = d.floors * 3 * Unit
           /\ b.gross_area.some =>
                /\ d.length = d.width
                /\ side20 * (Unit \div 20) = d.width
                /\ side20 * side20 * d.floors <= 400 * b.gross_area.v
                /\ (side20 + 1) * (side20 + 1) * d.floors > 400 * b.gross_area.v
           /\ ~b.gross_area.some =>
                d.width = 10 * Unit /\ d.length = 8 * Unit
           /\ (b.number_of_floors = Some(2) /\ b.gross_area = Some(128)) =>
                d.width = 8 * Unit /\ d.height = 6 * Unit

C17_Witness ==
    /\ callPc = "returned" /\ callIn.kind = "building" /\ callOut.ok
    /\ callIn.building.building_type = "enebolig"
    /\ callIn.building.number_of_floors = Some(2)
    /\ callIn.building.gross_area = Some(128)
    /\ callOut.dims.width = 8 * Unit /\ callOut.dims.height = 6 * Unit

\* the extent of the vertices vs along coordinate c
Extent(vs, c) == MaxOf(Coords(vs, c)) - MinOf(Coords(vs, c))

\* C18: a synthesized apartment building is one box of 1.5 times the
\* nominal width and length, a commercial building one box of 2 times them,
\* a building of any other type but the house types one box of the nominal
\* width and length; each of the three spans the full height floors * 3
\* with a flat top, and the mesh holds roof vertices exactly for the house
\* types.
C18_DispatchOnType ==
    ( /\ callPc = "returned" /\ callIn.kind = "building"
      /\ callOut.ok /\ callOut.dims.floors >= 1 )
    => LET t     == callIn.building.building_type
           d     == callOut.dims
           g     == callOut.geometry
           v     == g.vertices
           scale == IF t = "leilighetsbygg" THEN <<3, 2>>
                    ELSE IF t \in CommercialTypes THEN <<2, 1>>
                    ELSE <<1, 1>>
       IN  /\ (Len(v) > g.nbox) <=> (t \in HouseTypes)
           /\ g.generator = (IF t \in HouseTypes THEN "house"
                             ELSE IF t = "leilighetsbygg" THEN "apartment"
                             ELSE IF t \in CommercialTypes THEN "commercial"
                             ELSE "generic")
           /\ t \notin HouseTypes =>
                /\ Len(v) = 8 /\ g.faces = BoxFaces
                /\ Extent(v, 1) * scale[2] = d.width * scale[1]
                /\ Extent(v, 2) * scale[2] = d.length * scale[1]
                /\ Extent(v, 3) = d.floors * 3 * Unit
                /\ Coords(v, 3) = {callIn.ground, callIn.ground + d.floors * 3 * Unit}

C18_Witness ==
    /\ callPc = "returned" /\ callIn.kind = "building" /\ callOut.ok
    /\ callIn.building.building_type = "industribygg"
    /\ callIn.building.gross_area = Some(50)
    /\ callIn.building.number_of_floors = Some(2)
    /\ Extent(callOut.geometry.vertices, 1) = 10 * Unit

\* C19: a building synthesis fails exactly when the floor count is given
\* and not positive or the gross area is given and not positive; on every
\* other building, with floors or area left out or not, it succeeds.
C19_FailsExactlyOnNonPhysical ==
    (callPc = "returned" /\ callIn.kind = "building")
    => LET b == callIn.building
       IN  ~callOut.ok <=>
             \/ b.number_of_floors.some /\ b.number_of_floors.v <= 0
             \/ b.gross_area.some /\ b.gross_area.v <= 0

\* C20: in a run whose format is none of glb, obj and stl no mesh file is
\* ever written, no file record is kept, and the run ends with an error and
\* without files.
C20_UnsupportedFormatFails ==
    (pc # "idle" /\ options.format \notin SupportedFormats)
    => /\ \A p \in disk : p.kind = "metadata"
       /\ files = <<>>
       /\ pc = "done" => (result.error /\ result.files = <<>>)

\* C21: the file records of a descriptor returned without error have
\* pairwise different paths, whatever the building list (buildings sharing
\* an id included).
C21_DistinctPaths ==
    (pc = "done" /\ ~result.error)
    => \A i \in 1..Len(result.files) : \A j \in 1..Len(result.files) :
         i # j => result.files[i].path # result.files[j].path

\* C22: metadata.json is written once per run: it is on disk when a run
\* has returned without error, it is not on disk before the mesh exports
\* are over, and a finished call of generate_model_with_ai_analysis has
\* written it as well.
C22_MetadataOncePerRun ==
    /\ (pc = "done" /\ ~result.error) => MetadataPath(model_id) \in disk
    /\ (\E p \in disk : p.kind = "metadata") => pc = "done"
    /\ aiPc = "done" => \E p \in disk : p.kind = "metadata"

RECURSIVE IsSubsequence(_, _)
\* the elements of s are found in t, in the order of s
IsSubsequence(s, t) ==
    IF s = <<>> THEN TRUE
    ELSE IF t = <<>> THEN FALSE
    ELSE IF Head(s) = Head(t) THEN IsSubsequence(Tail(s), Tail(t))
    ELSE IsSubsequence(s, Tail(t))

\* the place of a record type in the files of a descriptor
TypeRank(type) ==
    IF type = "combined" THEN 1 ELSE IF type = "terrain" THEN 2 ELSE 3

\* C29: a returned descriptor is a failure, with an error and no files, or a
\* success without error whose files start with the one combined record,
\* go on with at most one terrain record and end with building records in
\* the order of the property's building list, each for a building whose
\* mesh was composed into the combined mesh.
C29_DescriptorShape ==
    pc = "done"
    => /\ result.returned
       /\ result.error => result.files = <<>>
       /\ ~result.error =>
            LET fs    == result.files
                recs  == SelectSeq(fs, LAMBDA r : r.type = "building")
                recB  == [i \in 1..Len(recs) |-> recs[i].building_id.v]
                modB  == [i \in 1..Len(building_models) |->
                             building_models[i].building.id]
                propB == [i \in 1..Len(property.buildings) |->
                             property.buildings[i].id]
                part  == SelectSeq(meshes, LAMBDA e : e.origin = "building")
            IN  /\ Len(fs) >= 1 /\ fs[1].type = "combined"
                /\ Len(SelectSeq(fs, LAMBDA r : r.type = "combined")) = 1
                /\ Len(SelectSeq(fs, LAMBDA r : r.type = "terrain")) <= 1
                /\ \A i \in 1..Len(fs) :
                     /\ fs[i].type \in {"combined", "terrain", "building"}
                     /\ \A j \in 1..Len(fs) :
                          i < j => TypeRank(fs[i].type) <= TypeRank(fs[j].type)
                /\ \A i \in 1..Len(recs) : recs[i].building_id.some
                /\ IsSubsequence(recB, modB)
                /\ IsSubsequence(modB, propB)
                /\ Len(part) = Len(building_models)
                /\ \A i \in 1..Len(part) : part[i].mesh = building_models[i].mesh
                /\ combined_mesh.some

C29_Witness ==
    /\ pc = "done" /\ ~result.error
    /\ Len(result.files) = 3
    /\ result.files[2].type = "terrain"
    /\ result.files[3].type = "building"
    /\ Len(property.buildings) > Len(building_models)

\* C25: the height grid stored for a terrain model of radius r and
\* resolution q has ceil(r * 2 * q) points along each axis (radiusH and
\* resolutionH are the halves of this model: r * 2 * q = radiusH *
\* resolutionH / 2).
C25_GridSideIsCeil ==
    ( /\ callPc = "returned" /\ callIn.kind = "fetch"
      /\ callOut.terrain_model.height_data.some )
    => callOut.terrain_model.height_data.v
         = (callIn.radiusH * callIn.resolutionH + 1) \div 2

\* C26: in a generated terrain mesh the vertex of grid index (0, 0) has
\* x = y = -radius and the vertex of grid index (N-1, N-1) has
\* x = y = +radius (xn and yn are numerators over 2N, radius is
\* radiusH * N over 2N).
C26_SpanIsRadius ==
    ( /\ callPc = "returned" /\ callIn.kind = "terrain"
      /\ callOut.ok /\ CallGridSide >= 2 )
    => LET N == CallGridSide
           v == callOut.vertices
       IN  /\ v[1].xn = -(callIn.radiusH * N) /\ v[1].yn = -(callIn.radiusH * N)
           /\ v[N * N].xn = callIn.radiusH * N /\ v[N * N].yn = callIn.radiusH * N

\* twice the signed area, in the x, y plane, of the face f over vertices v
SignedArea2(v, f) ==
    LET a == v[f[1] + 1]
        b == v[f[2] + 1]
        c == v[f[3] + 1]
    IN  (b.xn - a.xn) * (c.yn - a.yn) - (c.xn - a.xn) * (b.yn - a.yn)

\* C27: in a generated terrain mesh every cell (i, j) is covered by exactly
\* two faces, both holding the corners (i, j) and (i+1, j+1) and together
\* the four corners of the cell, and the signed areas in the x, y plane of
\* all faces are non-zero and of one sign.
C27_DiagonalAndWinding ==
    ( /\ callPc = "returned" /\ callIn.kind = "terrain"
      /\ callOut.ok /\ CallGridSide >= 2 )
    => LET N  == CallGridSide
           v  == callOut.vertices
           fs == callOut.mesh.faces
           Corners(f) == {f[1], f[2], f[3]}
       IN  /\ Len(fs) = 2 * (N - 1) * (N - 1)
           /\ \A i \in 0..(N - 2) : \A j \in 0..(N - 2) :
                LET c00  == i * N + j
                    c11  == (i + 1) * N + (j + 1)
                    cell == {c00, c00 + 1, c11 - 1, c11}
                    on   == {k \in 1..Len(fs) : Corners(fs[k]) \subseteq cell}
                IN  /\ Cardinality(on) = 2
                    /\ \A k \in on : {c00, c11} \subseteq Corners(fs[k])
                    /\ UNION {Corners(fs[k]) : k \in on} = cell
           /\ \A k \in 1..Len(fs) :
                /\ SignedArea2(v, fs[k]) # 0
                /\ (SignedArea2(v, fs[k]) > 0) = (SignedArea2(v, fs[1]) > 0)

C27_Witness ==
    /\ callPc = "returned" /\ callIn.kind = "terrain" /\ callOut.ok
    /\ CallGridSide >= 3
    /\ SignedArea2(callOut.vertices, callOut.mesh.faces[2]) < 0

\* C28: generate_mesh on a height grid of fewer than 2 x 2 points (the 1 x 1
\* grid, the empty grid) returns failure and leaves no mesh.
C28_SmallGridFails ==
    (callPc = "returned" /\ callIn.kind = "terrain" /\ CallGridSide < 2)
    => (~callOut.ok /\ ~callOut.mesh.some)

\* C23: no run reads or writes an attribute of the client that another run
\* wrote last (last_request_time, a cache entry).
C23_NoSharedState ==
    \A r \in Runs : req[r].foreign = {}

\* C24: with max_retries = R a request is attempted at most R + 1 times;
\* the k-th failed attempt but the last is followed by a sleep of 2^k
\* seconds, which is over only when that time has passed; a request whose
\* attempts all failed with a transport error ends after exactly R + 1
\* attempts and R sleeps by raising KartverketAPIError; a request that
\* returned from an attempt made no attempt after it.
C24_BoundedRetryBackoff ==
    /\ [](\A r \in Runs :
            LET q == req[r]
                R == config.max_retries
            IN  /\ q.attempts <= R + 1
                /\ Len(q.waits) <= R
                /\ \A k \in 1..Len(q.waits) : q.waits[k] = 2^k
                /\ q.pc = "sleeping" => q.attempts = Len(q.waits)
                /\ q.pc = "attempt" => q.attempts = Len(q.waits)
                /\ (q.pc = "returned" /\ ~q.from_cache) => q.attempts = Len(q.waits) + 1
                /\ q.pc = "raised" => q.attempts = Len(q.waits) + 1
                /\ (q.pc = "raised" /\ q.only_transport)
                     => /\ q.attempts = R + 1
                        /\ Len(q.waits) = R
                        /\ q.error = "KartverketAPIError")
    /\ [][\A r \in Runs :
            /\ (req[r].pc # "sleeping" /\ req'[r].pc = "sleeping")
                 => req'[r].wake = clock + 2^(Len(req'[r].waits))
            /\ (req[r].pc = "sleeping" /\ req'[r].pc # "sleeping")
                 => (clock >= req[r].wake /\ req'[r].pc = "attempt")
            /\ req[r].pc \in {"returned", "raised"} => req'[r] = req[r]]_vars

C24_Witness ==
    \E r \in Runs :
        /\ req[r].pc = "raised" /\ req[r].only_transport
        /\ config.max_retries = 2
        /\ req[r].attempts = 3 /\ req[r].waits = <<2, 4>>

\* C30: a cache entry changes only in the step in which an attempt of a GET
\* for its key returns data, and becomes that data; the step in which a
\* request ends by raising leaves the cache as it was; and a GET whose key
\* has an entry younger than cache_timeout returns that entry's data with
\* no attempt made and nothing of the client written.
C30_CacheFrame ==
    [][/\ \A k \in Keys :
            cache'[k] # cache[k]
            => \E r \in Runs :
                 /\ req[r].pc = "attempt" /\ req[r].key = k
                 /\ req[r].method = "GET"
                 /\ req'[r].pc = "returned" /\ ~req'[r].from_cache
                 /\ cache'[k] = [some |-> TRUE, data |-> req'[r].data,
                                 timestamp |-> clock, writer |-> r]
       /\ \A r \in Runs :
            /\ (req[r].pc # "raised" /\ req'[r].pc = "raised") => cache' = cache
            /\ ( /\ req[r].pc = "cache_check" /\ req'[r] # req[r]
                 /\ req[r].method = "GET"
                 /\ cache[req[r].key].some
                 /\ req[r].current_time - cache[req[r].key].timestamp
                      < config.cache_timeout )
               => /\ req'[r].pc = "returned" /\ req'[r].from_cache
                  /\ req'[r].data = cache[req[r].key].data
                  /\ req'[r].attempts = 0
                  /\ cache' = cache
                  /\ last_request_time' = last_request_time]_vars

C30_Witness ==
    /\ req[1].pc = "returned" /\ ~req[1].from_cache /\ req[1].attempts = 2
    /\ req[2].pc = "returned" /\ req[2].from_cache /\ req[2].attempts = 0
    /\ req[2].key = req[1].key /\ req[2].data = req[1].data
    /\ clock > cache[req[1].key].timestamp

====
